---------------------------- MODULE Spec2Model ----------------------------
(***************************************************************************)
(* Model of downloader/views.py: the two HTTP handlers analyze_url and     *)
(* download_format, the URL validator _is_valid_url, and the filesystem    *)
(* effects of download_format (os.makedirs, the backend's file write,      *)
(* os.path.exists, open).                                                  *)
(*                                                                         *)
(* Text is modelled as sequences of tokens.  A URL is a sequence of words  *)
(* and delimiters; a filename or subfolder is a sequence of characters; a  *)
(* filesystem path is a sequence of segments, each segment a sequence of   *)
(* characters/tokens.  Python values that may be None or of another type   *)
(* are records [t |-> tag, s |-> text].                                    *)
(***************************************************************************)
EXTENDS Naturals, Sequences, FiniteSets, TLC

VARIABLES
    pc,          \* position of the sequential server: idle / an_backend / dl_backend / done
    op,          \* handler serving the current request: none / analyze / download
    req,         \* the current request
    loc,         \* the handler's local variables that survive the backend call
    resp,        \* the response of the current request
    calls,       \* number of backend invocations made for the current request
    out,         \* how the backend call of the current request ended
    fs,          \* the filesystem: [dirs, files], sets of absolute paths
    fs0,         \* the filesystem as it was when the current request arrived
    wk,          \* concurrent workers: position and outcome of each one's os.makedirs
    csub         \* the subfolder parameter the concurrent workers share

vars == <<pc, op, req, loc, resp, calls, out, fs, fs0, wk, csub>>

---------------------------------------------------------------------------
(* Python values *)

PyNone == [t |-> "none", s |-> <<>>]
PyTrue == [t |-> "bool", s |-> <<"True">>]
PyFalse == [t |-> "bool", s |-> <<>>]
PyZero == [t |-> "int", s |-> <<>>]
PyFive == [t |-> "int", s |-> <<"5">>]
PyEmptyBytes == [t |-> "bytes", s |-> <<>>]

Str(s) == [t |-> "str", s |-> s]

\* Python truthiness: None, False, 0, "" and b"" are falsy.
Truthy(v) == v.t # "none" /\ v.s # <<>>

\* Python `a or b`
PyOr(a, b) == IF Truthy(a) THEN a ELSE b

\* Python `a and b`
PyAnd(a, b) == IF Truthy(a) THEN b ELSE a

---------------------------------------------------------------------------
(* urllib.parse.urlparse as used by _is_valid_url, on token sequences *)

SchemeWords == {"http", "https", "HTTP", "ftp", "host", "v", "80"}
AlphaWords == {"http", "https", "HTTP", "ftp", "host", "v"}

Lower(w) == IF w = "HTTP" THEN "http" ELSE w

\* index of the first occurrence of token d in s, 0 when there is none
Find(s, d) ==
    IF \E i \in 1..Len(s) : s[i] = d
    THEN CHOOSE i \in 1..Len(s) : s[i] = d /\ \A j \in 1..(i-1) : s[j] # d
    ELSE 0

\* the suffix of s starting at index i
From(s, i) == IF i > Len(s) THEN <<>> ELSE SubSeq(s, i, Len(s))

\* urlsplit: [scheme, netloc, rest, error]
UrlSplit(u) ==
    LET i == Find(u, ":")
        hasScheme == /\ i > 1
                     /\ u[1] \in AlphaWords
                     /\ \A j \in 1..(i-1) : u[j] \in SchemeWords
        scheme == IF hasScheme THEN [j \in 1..(i-1) |-> Lower(u[j])] ELSE <<>>
        r1 == IF hasScheme THEN From(u, i+1) ELSE u
        hasNet == Len(r1) >= 2 /\ r1[1] = "/" /\ r1[2] = "/"
        r2 == IF hasNet THEN From(r1, 3) ELSE r1
        k == Find(r2, "/")
        netloc == IF ~hasNet THEN <<>>
                  ELSE IF k = 0 THEN r2 ELSE SubSeq(r2, 1, k-1)
        lb == \E j \in 1..Len(netloc) : netloc[j] = "["
        rb == \E j \in 1..Len(netloc) : netloc[j] = "]"
    IN  [scheme |-> scheme, netloc |-> netloc, error |-> hasNet /\ (lb # rb)]

\* _is_valid_url: a non-str argument makes urlparse raise, which is caught
IsValidUrl(url) ==
    IF url.t # "str" THEN FALSE
    ELSE LET p == UrlSplit(url.s)
         IN  IF p.error THEN FALSE
             ELSE p.scheme \in {<<"http">>, <<"https">>} /\ p.netloc # <<>>

\* URL texts a client may send
UrlTexts ==
    { <<"https", ":", "/", "/", "host", "/", "v">>,
      <<"HTTP", ":", "/", "/", "host">>,
      <<"http", ":", "/", "/", ":", "80", "/", "v">>,
      <<"ftp", ":", "/", "/", "host", "/", "v">>,
      <<"host", "/", "v">>,
      <<"http", ":", "/", "/", "/", "v">>,
      <<"http", ":", "/", "/", "[", "host">>,
      <<>> }

---------------------------------------------------------------------------
(* Paths and the filesystem *)

\* base_dir, the project directory (an absolute path below the root <<>>)
BaseDir == << <<"app">> >>

\* os.path.join(dir, name) for a name that holds no separator
Join(dir, name) == Append(dir, name)

\* the fixed storage root, os.path.join(base_dir, "videos")
StorageRoot == Join(BaseDir, <<"videos">>)

Front(p) == SubSeq(p, 1, Len(p) - 1)
Last(p) == p[Len(p)]

\* what the kernel resolves a path to: "" and "." stay, ".." goes up
RECURSIVE ResolveFrom(_, _)
ResolveFrom(acc, p) ==
    IF p = <<>> THEN acc
    ELSE LET seg == Head(p)
         IN  IF seg = <<>> \/ seg = <<".">> THEN ResolveFrom(acc, Tail(p))
             ELSE IF seg = <<".", ".">>
                  THEN ResolveFrom(IF acc = <<>> THEN acc ELSE Front(acc), Tail(p))
                  ELSE ResolveFrom(Append(acc, seg), Tail(p))

Resolve(p) == ResolveFrom(<<>>, p)

\* str.replace(sep, "")
Remove(s, sep) == SelectSeq(s, LAMBDA c : c # sep)

\* value.replace("/", "").replace("\\", "")
Sanitize(s) == Remove(Remove(s, "/"), "\\")

\* `"." in safe_name`
HasDot(s) == \E i \in 1..Len(s) : s[i] = "."

\* videos_dir after lines 121-126
VideosDir(subfolder) ==
    IF Truthy(subfolder)
    THEN Join(StorageRoot, Sanitize(subfolder.s))
    ELSE StorageRoot

\* outtmpl after lines 130-137
OutTmpl(videos_dir, custom_filename) ==
    IF Truthy(custom_filename)
    THEN LET safe_name == Sanitize(custom_filename.s)
         IN  IF HasDot(safe_name)
             THEN Join(videos_dir, safe_name)
             ELSE Join(videos_dir, safe_name \o <<".", "%(ext)s">>)
    ELSE Join(videos_dir, <<"%(title)s", ".", "%(ext)s">>)

\* the title and extension the backend substitutes into a template
BackendTitle == <<"T">>
BackendExt == <<"mp4">>

RECURSIVE ExpandSeg(_)
ExpandSeg(seg) ==
    IF seg = <<>> THEN <<>>
    ELSE LET c == Head(seg)
         IN  (IF c = "%(title)s" THEN BackendTitle
              ELSE IF c = "%(ext)s" THEN BackendExt
              ELSE <<c>>) \o ExpandSeg(Tail(seg))

\* ydl.prepare_filename(info): the template with its last segment expanded
PrepareFilename(outtmpl) == Append(Front(outtmpl), ExpandSeg(Last(outtmpl)))

FreshFs == [dirs |-> {<<>>, BaseDir}, files |-> {}]

\* os.path.exists / os.path.isdir
PathExists(f, p) == Resolve(p) \in f.dirs \cup f.files
IsDir(f, p) == Resolve(p) \in f.dirs
IsFile(f, p) == Resolve(p) \in f.files

\* os.mkdir: [fs, err]
Mkdir(f, p) ==
    LET rp == Resolve(p)
    IN  IF rp \in f.dirs \cup f.files THEN [fs |-> f, err |-> "EEXIST"]
        ELSE IF Front(rp) \in f.files THEN [fs |-> f, err |-> "ENOTDIR"]
        ELSE IF Front(rp) \notin f.dirs THEN [fs |-> f, err |-> "ENOENT"]
        ELSE [fs |-> [f EXCEPT !.dirs = @ \cup {rp}], err |-> "ok"]

\* exist_ok left at its default
ExistOkFalse == FALSE

\* the exist_ok argument of os.makedirs at line 128
ExistOk == TRUE

\* os.mkdir in the place of os.makedirs: no parent is created
MakeDirsLeafOnly(f, name0, exist_ok) ==
    LET m == Mkdir(f, name0)
    IN  IF m.err = "ok" THEN [fs |-> m.fs, raised |-> "no"]
        ELSE IF ~exist_ok \/ ~IsDir(f, name0) THEN [fs |-> f, raised |-> "OSError"]
        ELSE [fs |-> f, raised |-> "no"]

\* os.makedirs(name, exist_ok): [fs, raised]
RECURSIVE MakeDirs(_, _, _)
MakeDirs(f, name0, exist_ok) ==
    LET name == IF name0 # <<>> /\ Last(name0) = <<>> THEN Front(name0) ELSE name0
        head == Front(name)
        tail == Last(name)
        viaHead == head # <<>> /\ tail # <<>> /\ ~PathExists(f, head)
        h == IF viaHead THEN MakeDirs(f, head, exist_ok) ELSE [fs |-> f, raised |-> "no"]
        f1 == h.fs
        m == Mkdir(f1, name)
    IN  IF h.raised \notin {"no", "FileExistsError"} THEN h
        ELSE IF viaHead /\ tail = <<".">> THEN [fs |-> f1, raised |-> "no"]
        ELSE IF m.err = "ok" THEN [fs |-> m.fs, raised |-> "no"]
        ELSE IF ~exist_ok \/ ~IsDir(f1, name)
             THEN [fs |-> f1,
                   raised |-> IF m.err = "EEXIST" THEN "FileExistsError" ELSE "OSError"]
             ELSE [fs |-> f1, raised |-> "no"]

---------------------------------------------------------------------------
(* Responses *)

NoResp ==
    [kind |-> "none", status |-> 0, error |-> "", hasDetail |-> FALSE,
     detail |-> <<>>, hint |-> FALSE, formats |-> <<>>, path |-> <<>>, filename |-> <<>>]

\* JsonResponse({"error": ..., "detail"?: ..., "hint"?: ...}, status=...)
JsonError(status, error, hasDetail, detail, hint) ==
    [NoResp EXCEPT !.kind = "json", !.status = status, !.error = error,
                   !.hasDetail = hasDetail, !.detail = detail, !.hint = hint]

\* JsonResponse(response_data)
JsonInfo(formats) == [NoResp EXCEPT !.kind = "json", !.status = 200, !.formats = formats]

\* FileResponse(open(path, "rb"), as_attachment=True, filename=filename)
FileAttachment(path, filename) ==
    [NoResp EXCEPT !.kind = "file", !.status = 200, !.path = path, !.filename = filename]

\* an exception no handler catches leaves the view: no JSON body is produced
Unhandled(exc) == [NoResp EXCEPT !.kind = "unhandled", !.status = 500, !.error = exc]

---------------------------------------------------------------------------
(* The extraction backend (yt_dlp), a black box *)

SigCurly == "Sign in to confirm you(U+2019)re not a bot"
SigStraight == "Sign in to confirm you're not a bot"

\* str(e) of a DownloadError, as a sequence of text pieces
BackendMessages ==
    { <<"ERROR: ", SigCurly, ". Use --cookies">>,
      <<"ERROR: ", SigStraight>>,
      <<"ERROR: ", "Video unavailable">>,
      <<"Sign in">>,
      <<>> }

\* `needle in detail`
Contains(detail, needle) == \E i \in 1..Len(detail) : detail[i] = needle

Absent == "<absent>"

MaxFormats == 2

\* a raw format record of info["formats"]; Absent is a missing (or None) entry
RawRecords ==
    [url : {Absent, "", "u"}, vcodec : {Absent, "none", "avc1"}, acodec : {Absent, "none", "mp4a"}]

RawLists == UNION {[1..n -> RawRecords] : n \in 0..MaxFormats}

\* what extract_info(url, download=False) returns: None, or a dict whose
\* "formats" entry is missing, None or a list
Infos ==
    {[t |-> "none", formats |-> "none", items |-> <<>>],
     [t |-> "dict", formats |-> "absent", items |-> <<>>],
     [t |-> "dict", formats |-> "none", items |-> <<>>]}
    \cup {[t |-> "dict", formats |-> "list", items |-> l] : l \in RawLists}

\* the ways the metadata call can end
MetaOutcomes ==
    {[kind |-> "download_error", msg |-> m, info |-> [t |-> "none", formats |-> "none", items |-> <<>>]]
        : m \in BackendMessages}
    \cup {[kind |-> "exception", msg |-> <<"boom">>, info |-> [t |-> "none", formats |-> "none", items |-> <<>>]]}
    \cup {[kind |-> "return", msg |-> <<>>, info |-> i] : i \in Infos}

\* the ways the materialize call (extract_info(download=True), then
\* prepare_filename) can end; written says whether a file is at the reported path
DownloadOutcomes ==
    {[kind |-> "download_error", msg |-> m, info |-> "none", written |-> FALSE]
        : m \in BackendMessages}
    \cup {[kind |-> "exception", msg |-> <<"boom">>, info |-> "none", written |-> FALSE]}
    \cup {[kind |-> "return", msg |-> <<>>, info |-> "none", written |-> FALSE]}
    \cup {[kind |-> "return", msg |-> <<>>, info |-> "dict", written |-> w] : w \in BOOLEAN}

---------------------------------------------------------------------------
(* analyze_url *)

JsonContentTypes == {"application/json", "application/json-seq"}

\* POST requests: a form post carries url in request.POST; a JSON post has an
\* empty request.POST and a body that is empty, malformed, a JSON array or a
\* JSON object whose "url" is missing/null, a number or a string
AnalyzeRequests ==
    {[content_type |-> "application/x-www-form-urlencoded", post_url |-> u,
      body |-> IF u = PyNone THEN "empty" ELSE "form", json_url |-> PyNone]
        : u \in {PyNone} \cup {Str(t) : t \in UrlTexts}}
    \cup {[content_type |-> c, post_url |-> PyNone, body |-> b, json_url |-> PyNone]
        : c \in JsonContentTypes, b \in {"empty", "malformed", "array"}}
    \cup {[content_type |-> c, post_url |-> PyNone, body |-> "object", json_url |-> u]
        : c \in JsonContentTypes,
          u \in {PyNone, PyZero, PyFive} \cup {Str(t) : t \in UrlTexts}}

\* request.body as a Python value
BodyBytes(r) == IF r.body = "empty" THEN PyEmptyBytes ELSE [t |-> "bytes", s |-> <<r.body>>]

StartsWithJson(c) == IF c \in JsonContentTypes THEN PyTrue ELSE PyFalse

\* lines 39-50: [bad_json, url]
AnalyzeUrlOf(r) ==
    LET url0 == PyOr(r.post_url, PyAnd(BodyBytes(r), StartsWithJson(r.content_type)))
    IN  IF r.content_type = "application/json"
        THEN IF r.body = "object"
             THEN [bad_json |-> FALSE, url |-> r.json_url]
             ELSE [bad_json |-> TRUE, url |-> url0]
        ELSE [bad_json |-> FALSE, url |-> url0]

\* the two tests in the other order
FmtTypeSwapped(vcodec, acodec) ==
    IF acodec = "none" THEN "video"
    ELSE IF vcodec = "none" THEN "audio" ELSE "video+audio"

\* line 79
FmtType(vcodec, acodec) ==
    IF vcodec = "none" THEN "audio"
    ELSE IF acodec = "none" THEN "video" ELSE "video+audio"

\* no record is skipped
KeepsAll(f) == TRUE

\* line 77, negated: the record is kept
HasLocator(f) == f.url \notin {Absent, ""}

\* lines 75-92
RECURSIVE FormatsData(_)
FormatsData(raw) ==
    IF raw = <<>> THEN <<>>
    ELSE LET f == Head(raw)
         IN  IF ~HasLocator(f) THEN FormatsData(Tail(raw))
             ELSE <<[vcodec |-> f.vcodec, acodec |-> f.acodec,
                     type |-> FmtType(f.vcodec, f.acodec)]>>
                  \o FormatsData(Tail(raw))

\* only the typographic apostrophe is looked for
IsAccessDeniedCurlyOnly(detail) == Contains(detail, SigCurly)

\* line 61
IsAccessDenied(detail) == Contains(detail, SigCurly) \/ Contains(detail, SigStraight)

\* lines 55-105: the response once the metadata call has ended with outcome o
AnalyzeResponse(o) ==
    IF o.kind = "download_error"
    THEN IF IsAccessDenied(o.msg)
         THEN JsonError(403, "YouTube is blocking this request", TRUE, o.msg, TRUE)
         ELSE JsonError(400, "Failed to retrieve video information", TRUE, o.msg, FALSE)
    ELSE IF o.kind = "exception"
    THEN JsonError(500, "Unexpected error while analyzing URL", TRUE, o.msg, FALSE)
    ELSE IF o.info.t = "none" THEN Unhandled("AttributeError")
    ELSE IF o.info.formats = "none" THEN Unhandled("TypeError")
    ELSE JsonInfo(FormatsData(o.info.items))

NoReq == [url |-> PyNone]

NoLoc == [url |-> PyNone, videos_dir |-> <<>>, outtmpl |-> <<>>]

NoOut == [kind |-> "none"]

AnalyzeReceive(r) ==
    /\ pc = "idle"
    /\ op' = "analyze"
    /\ req' = r
    /\ calls' = 0
    /\ out' = NoOut
    /\ fs0' = fs
    /\ LET a == AnalyzeUrlOf(r)
       IN  IF a.bad_json
           THEN /\ resp' = JsonError(400, "Invalid JSON body", FALSE, <<>>, FALSE)
                /\ pc' = "done"
                /\ loc' = NoLoc
           ELSE IF ~Truthy(a.url) \/ ~IsValidUrl(a.url)
           THEN /\ resp' = JsonError(400, "Invalid or missing URL", FALSE, <<>>, FALSE)
                /\ pc' = "done"
                /\ loc' = NoLoc
           ELSE /\ resp' = NoResp
                /\ pc' = "an_backend"
                /\ loc' = [NoLoc EXCEPT !.url = a.url]
    /\ UNCHANGED <<fs, wk, csub>>

AnalyzeBackend(o) ==
    /\ pc = "an_backend"
    /\ calls' = calls + 1
    /\ out' = o
    /\ resp' = AnalyzeResponse(o)
    /\ pc' = "done"
    /\ UNCHANGED <<op, req, loc, fs, fs0, wk, csub>>

---------------------------------------------------------------------------
(* download_format *)

\* subfolder query parameters: absent, empty, only separators, "../", "a/.b"
Subfolders ==
    {PyNone, Str(<<>>), Str(<<"/", "\\">>), Str(<<".", ".", "/">>), Str(<<"a", "/", ".", "b">>)}

\* filename query parameters: absent, "a\.b", "T", "/.."
Filenames ==
    {PyNone, Str(<<"a", "\\", ".", "b">>), Str(<<"T">>), Str(<<"/", ".", ".">>)}

FormatIds == {PyNone, Str(<<>>), Str(<<"95">>)}

\* GET requests: every query parameter is a string or absent
DownloadRequests ==
    [url : {PyNone} \cup {Str(t) : t \in UrlTexts}, format_id : FormatIds,
     filename : Filenames, subfolder : Subfolders]

\* the existence check left out
FileFoundAlways(f, path) == TRUE

\* line 154: os.path.exists(downloaded_path)
FileFound(f, path) == PathExists(f, path)

\* lines 145-161: the response once the materialize call has ended with
\* outcome o, the filesystem being f and the reported path being path
DownloadResponse(o, f, path) ==
    IF o.kind = "download_error"
    THEN JsonError(400, "Failed to download video", TRUE, o.msg, FALSE)
    ELSE IF o.kind = "exception"
    THEN JsonError(500, "Unexpected error while downloading", TRUE, o.msg, FALSE)
    ELSE IF o.info = "none"
    THEN JsonError(500, "Unexpected error while downloading", TRUE, <<"TypeError">>, FALSE)
    ELSE IF ~FileFound(f, path)
    THEN JsonError(500, "Downloaded file not found on server", FALSE, <<>>, FALSE)
    ELSE IF ~PathExists(f, path) THEN Unhandled("FileNotFoundError")
    ELSE IF IsDir(f, path) THEN Unhandled("IsADirectoryError")
    ELSE FileAttachment(path, Last(path))

\* lines 111-143
DownloadReceive(r) ==
    /\ pc = "idle"
    /\ op' = "download"
    /\ req' = r
    /\ calls' = 0
    /\ out' = NoOut
    /\ fs0' = fs
    /\ IF ~Truthy(r.url) \/ ~IsValidUrl(r.url)
       THEN /\ resp' = JsonError(400, "Invalid or missing URL", FALSE, <<>>, FALSE)
            /\ pc' = "done"
            /\ loc' = NoLoc
            /\ fs' = fs
       ELSE IF ~Truthy(r.format_id)
       THEN /\ resp' = JsonError(400, "Missing format_id", FALSE, <<>>, FALSE)
            /\ pc' = "done"
            /\ loc' = NoLoc
            /\ fs' = fs
       ELSE LET videos_dir == VideosDir(r.subfolder)
                m == MakeDirs(fs, videos_dir, ExistOk)
            IN  /\ fs' = m.fs
                /\ IF m.raised # "no"
                   THEN /\ resp' = Unhandled(m.raised)
                        /\ pc' = "done"
                        /\ loc' = NoLoc
                   ELSE /\ resp' = NoResp
                        /\ pc' = "dl_backend"
                        /\ loc' = [url |-> r.url, videos_dir |-> videos_dir,
                                   outtmpl |-> OutTmpl(videos_dir, r.filename)]
    /\ UNCHANGED <<wk, csub>>

\* the filesystem after the materialize call: a file at the reported path
\* when the backend wrote one
AfterDownload(f, o, path) ==
    IF o.kind = "return" /\ o.info = "dict" /\ o.written
    THEN [f EXCEPT !.files = @ \cup {Resolve(path)}]
    ELSE f

\* lines 145-161
DownloadBackend(o) ==
    /\ pc = "dl_backend"
    /\ LET path == PrepareFilename(loc.outtmpl)
       IN  /\ o.written => ~IsDir(fs, path)
           /\ fs' = AfterDownload(fs, o, path)
           /\ resp' = DownloadResponse(o, fs', path)
    /\ calls' = calls + 1
    /\ out' = o
    /\ pc' = "done"
    /\ UNCHANGED <<op, req, loc, fs0, wk, csub>>

\* the view has returned: the server is ready for the next request
Return ==
    /\ pc = "done"
    /\ pc' = "idle"
    /\ op' = "none"
    /\ req' = NoReq
    /\ loc' = NoLoc
    /\ resp' = NoResp
    /\ out' = NoOut
    /\ calls' = 0
    /\ fs0' = fs
    /\ UNCHANGED <<fs, wk, csub>>

---------------------------------------------------------------------------
(* Concurrent download requests: os.makedirs step by step *)

NumProcs == 3

Procs == 1..NumProcs

\* lost: the worker's mkdir of the target found it already there
IdleWorkers == [p \in Procs |-> [pc |-> "off", raised |-> "no", lost |-> FALSE]]

\* the name os.makedirs works on: a trailing empty segment is split off
MakeDirsName(subfolder) ==
    LET n == VideosDir(subfolder)
    IN  IF Last(n) = <<>> THEN Front(n) ELSE n

\* os.makedirs: `if head and tail and not path.exists(head)`
WCheckHead(p) ==
    /\ wk[p].pc = "start"
    /\ LET name == MakeDirsName(csub)
       IN  wk' = [wk EXCEPT ![p].pc =
                     IF Front(name) # <<>> /\ Last(name) # <<>> /\ ~PathExists(fs, Front(name))
                     THEN "mkhead" ELSE "mkleaf"]
    /\ UNCHANGED <<pc, op, req, loc, resp, calls, out, fs, fs0, csub>>

\* os.makedirs: the recursive makedirs(head), FileExistsError passed over
WMkHead(p) ==
    /\ wk[p].pc = "mkhead"
    /\ LET name == MakeDirsName(csub)
           h == MakeDirs(fs, Front(name), ExistOk)
       IN  /\ fs' = h.fs
           /\ wk' = [wk EXCEPT ![p] =
                        IF h.raised \notin {"no", "FileExistsError"}
                        THEN [pc |-> "raised", raised |-> h.raised, lost |-> FALSE]
                        ELSE IF Last(name) = <<".">>
                        THEN [pc |-> "made", raised |-> "no", lost |-> FALSE]
                        ELSE [pc |-> "mkleaf", raised |-> "no", lost |-> FALSE]]
    /\ UNCHANGED <<pc, op, req, loc, resp, calls, out, fs0, csub>>

\* os.makedirs: mkdir(name), OSError passed over when exist_ok and isdir
WMkLeaf(p) ==
    /\ wk[p].pc = "mkleaf"
    /\ LET name == MakeDirsName(csub)
           m == Mkdir(fs, name)
       IN  /\ fs' = m.fs
           /\ wk' = [wk EXCEPT ![p] =
                        IF m.err = "ok" THEN [pc |-> "made", raised |-> "no", lost |-> FALSE]
                        ELSE IF ~ExistOk \/ ~IsDir(fs, name)
                        THEN [pc |-> "raised", lost |-> m.err = "EEXIST",
                              raised |-> IF m.err = "EEXIST" THEN "FileExistsError" ELSE "OSError"]
                        ELSE [pc |-> "made", raised |-> "no", lost |-> TRUE]]
    /\ UNCHANGED <<pc, op, req, loc, resp, calls, out, fs0, csub>>

\* the rest of the request: the backend writes (or not) below videos_dir
WBackend(p, filename, o) ==
    /\ wk[p].pc = "made"
    /\ LET path == PrepareFilename(OutTmpl(VideosDir(csub), filename))
       IN  /\ o.written => ~IsDir(fs, path)
           /\ fs' = AfterDownload(fs, o, path)
    /\ wk' = [wk EXCEPT ![p].pc = "finished"]
    /\ UNCHANGED <<pc, op, req, loc, resp, calls, out, fs0, csub>>

---------------------------------------------------------------------------
(* Specifications *)

Init ==
    /\ pc = "idle"
    /\ op = "none"
    /\ req = NoReq
    /\ loc = NoLoc
    /\ resp = NoResp
    /\ calls = 0
    /\ out = NoOut
    /\ fs = FreshFs
    /\ fs0 = FreshFs
    /\ wk = IdleWorkers
    /\ csub = PyNone

NextAnalyze ==
    \/ \E r \in AnalyzeRequests : AnalyzeReceive(r)
    \/ \E o \in MetaOutcomes : AnalyzeBackend(o)
    \/ Return

NextDownload ==
    \/ \E r \in DownloadRequests : DownloadReceive(r)
    \/ \E o \in DownloadOutcomes : DownloadBackend(o)
    \/ Return

Next ==
    \/ \E r \in AnalyzeRequests : AnalyzeReceive(r)
    \/ \E o \in MetaOutcomes : AnalyzeBackend(o)
    \/ \E r \in DownloadRequests : DownloadReceive(r)
    \/ \E o \in DownloadOutcomes : DownloadBackend(o)
    \/ Return

\* the server answering analyze and download requests one after another
Spec == Init /\ [][Next]_vars

\* analyze requests only
SpecAnalyze == Init /\ [][NextAnalyze]_vars

\* download requests only
SpecDownload == Init /\ [][NextDownload]_vars

\* NumProcs validated download requests with one subfolder, started together
\* on a storage root that may or may not exist yet
InitConc ==
    /\ pc = "idle"
    /\ op = "none"
    /\ req = NoReq
    /\ loc = NoLoc
    /\ resp = NoResp
    /\ calls = 0
    /\ out = NoOut
    /\ fs \in {FreshFs, [FreshFs EXCEPT !.dirs = @ \cup {StorageRoot}]}
    /\ fs0 = FreshFs
    /\ wk = [p \in Procs |-> [pc |-> "start", raised |-> "no", lost |-> FALSE]]
    /\ csub \in Subfolders

NextConc ==
    \/ \E p \in Procs : WCheckHead(p)
    \/ \E p \in Procs : WMkHead(p)
    \/ \E p \in Procs : WMkLeaf(p)
    \/ \E p \in Procs, fn \in Filenames, o \in DownloadOutcomes : WBackend(p, fn, o)

SpecConc == InitConc /\ [][NextConc]_vars

---------------------------------------------------------------------------
(* Properties *)

Codecs == {Absent, "none", "avc1", "mp4a"}

\* a path lies inside the storage root: the root is a prefix of it
InsideRoot(p) ==
    Len(p) >= Len(StorageRoot) /\ SubSeq(p, 1, Len(StorageRoot)) = StorageRoot

\* the request passed the checks of lines 116-119
PassedChecks(r) == Truthy(r.url) /\ IsValidUrl(r.url) /\ Truthy(r.format_id)

\* the host of a network location (urlparse's hostname): after the last "@",
\* before the ":"
Hostname(netloc) ==
    LET ats == {j \in 1..Len(netloc) : netloc[j] = "@"}
        a == IF ats = {} THEN 0 ELSE CHOOSE j \in ats : \A m \in ats : m <= j
        hp == From(netloc, a+1)
        c == Find(hp, ":")
    IN  IF c = 0 THEN hp ELSE SubSeq(hp, 1, c-1)

\* a URL as section 4.1 wants it: a string with scheme http or https and a
\* non-empty host
WellFormedUrl(v) ==
    /\ v.t = "str"
    /\ ~UrlSplit(v.s).error
    /\ UrlSplit(v.s).scheme \in {<<"http">>, <<"https">>}
    /\ Hostname(UrlSplit(v.s).netloc) # <<>>

\* the url an analyze request carries: the JSON field of a JSON post, the
\* form field otherwise
SentUrl(r) == IF r.content_type = "application/json" THEN r.json_url ELSE r.post_url

BadAnalyzeInput(r) ==
    \/ r.content_type = "application/json" /\ r.body \in {"empty", "malformed"}
    \/ ~WellFormedUrl(SentUrl(r))

BadDownloadInput(r) == ~WellFormedUrl(r.url) \/ r.format_id \in {PyNone, Str(<<>>)}

\* C1: for every download request that passed validation, the target
\* directory and the file path the backend is handed resolve to locations
\* inside the storage root <base>/videos.
C1_PathInsideRoot ==
    (op = "download" /\ pc = "dl_backend") =>
        /\ InsideRoot(Resolve(loc.videos_dir))
        /\ InsideRoot(Resolve(PrepareFilename(loc.outtmpl)))

\* C2: a request whose URL is missing, has a scheme other than http/https or
\* an empty host, whose JSON body is malformed (analyze) or whose format_id is
\* absent or empty (download) never reaches the backend and is answered 400.
C2_BackendOnlyAfterChecks ==
    ((op = "analyze" /\ BadAnalyzeInput(req)) \/ (op = "download" /\ BadDownloadInput(req))) =>
        /\ calls = 0
        /\ pc \notin {"an_backend", "dl_backend"}
        /\ pc = "done" => (resp.kind = "json" /\ resp.status = 400)

C4_DownloadTaxonomy ==
    (op = "download" /\ pc = "done" /\ calls = 1) =>
        LET denied == Contains(out.msg, SigCurly) \/ Contains(out.msg, SigStraight)
        IN  /\ (out.kind = "download_error" /\ denied) => (resp.status = 403 /\ resp.hint)
            /\ (out.kind = "download_error" /\ ~denied) => resp.status = 400
            /\ out.kind = "exception" => resp.status = 500

\* C5: analyze_url answers a backend error with the access-denial signature
\* with 403 (error, detail, hint), any other backend error with 400 (the
\* message verbatim in detail, no hint), any other exception with 500; none
\* of the three carries a MediaInfo body.
C5_AnalyzeTaxonomy ==
    (op = "analyze" /\ pc = "done" /\ calls = 1 /\ out.kind # "return") =>
        LET denied == Contains(out.msg, SigCurly) \/ Contains(out.msg, SigStraight)
        IN  /\ resp.kind = "json" /\ resp.error # "" /\ resp.formats = <<>>
            /\ resp.status \in {400, 403, 500}
            /\ (out.kind = "download_error" /\ denied) <=> resp.status = 403
            /\ (out.kind = "download_error" /\ ~denied) <=> resp.status = 400
            /\ out.kind = "exception" <=> resp.status = 500
            /\ resp.status = 403 => (resp.hasDetail /\ resp.detail = out.msg /\ resp.hint)
            /\ resp.status = 400 => (resp.hasDetail /\ resp.detail = out.msg /\ ~resp.hint)

C5_Witness ==
    /\ op = "analyze" /\ pc = "done"
    /\ out.kind = "download_error"
    /\ Contains(out.msg, SigStraight)
    /\ resp.status = 403 /\ resp.hint

\* C6: every request ends in a normalized body, a file, or a JSON error object
\* with an error field, also when the metadata call returns None or a dict
\* whose formats entry is None.
C6_AlwaysStructured ==
    pc = "done" =>
        /\ resp.kind \in {"json", "file"}
        /\ (resp.kind = "json" /\ resp.status # 200) => resp.error # ""

\* C7: the type of every format in an analyze response is "audio" when its
\* vcodec is "none", otherwise "video" when its acodec is "none", otherwise
\* "video+audio"; an absent codec counts as not "none".
C7_Classification ==
    /\ \A v \in Codecs, a \in Codecs : FmtType(v, a) \in {"audio", "video", "video+audio"}
    /\ (op = "analyze" /\ pc = "done" /\ resp.status = 200) =>
        \A i \in 1..Len(resp.formats) :
            LET e == resp.formats[i]
            IN  /\ e.vcodec = "none" => e.type = "audio"
                /\ (e.vcodec # "none" /\ e.acodec = "none") => e.type = "video"
                /\ (e.vcodec # "none" /\ e.acodec # "none") => e.type = "video+audio"

C7_Witness ==
    /\ op = "analyze" /\ pc = "done" /\ resp.status = 200
    /\ \E i \in 1..Len(resp.formats) :
        resp.formats[i] = [vcodec |-> "none", acodec |-> "none", type |-> "audio"]
    /\ \E i \in 1..Len(resp.formats) :
        resp.formats[i] = [vcodec |-> Absent, acodec |-> "none", type |-> "video"]

\* C8: the formats of a successful analyze response are the raw records that
\* carry a non-empty url, in the backend's order, and no others.
C8_LocatorFilter ==
    (op = "analyze" /\ pc = "done" /\ out.kind = "return"
        /\ out.info.t = "dict" /\ out.info.formats \in {"list", "absent"}) =>
        LET raw == out.info.items
            kept == SelectSeq(raw, LAMBDA f : f.url # Absent /\ f.url # "")
        IN  /\ resp.kind = "json" /\ resp.status = 200
            /\ Len(resp.formats) = Cardinality({i \in 1..Len(raw) : raw[i].url \notin {Absent, ""}})
            /\ Len(resp.formats) = Len(kept)
            /\ \A i \in 1..Len(kept) :
                /\ resp.formats[i].vcodec = kept[i].vcodec
                /\ resp.formats[i].acodec = kept[i].acodec

C8_Witness ==
    /\ op = "analyze" /\ pc = "done" /\ out.kind = "return"
    /\ out.info.formats = "list"
    /\ Len(out.info.items) = 2
    /\ out.info.items[1].url = Absent
    /\ out.info.items[2].url = "u"
    /\ Len(resp.formats) = 1

\* C9: of any number of download requests creating the directory of one
\* subfolder at the same time, none fails because another created it first,
\* and the directory then exists, as a directory only.
C9_ConcurrentMakedirs ==
    \A p \in Procs :
        /\ wk[p].pc # "raised"
        /\ wk[p].pc \in {"made", "finished"} =>
            /\ Resolve(VideosDir(csub)) \in fs.dirs
            /\ Resolve(VideosDir(csub)) \notin fs.files

C9_Witness ==
    /\ csub = Str(<<"a", "/", ".", "b">>)
    /\ \A p \in Procs : wk[p].pc \in {"made", "finished"}
    /\ \E p \in Procs : wk[p].lost
    /\ Resolve(VideosDir(csub)) \in fs.dirs

\* C10 as claimed: from a state where the target directory does not exist, a
\* completed download request leaves the directory in place exactly when it
\* passed the URL and format_id checks, and a rejected one leaves the
\* filesystem unchanged.
C10_DirIffPassed ==
    (op = "download" /\ pc = "done" /\ Resolve(VideosDir(req.subfolder)) \notin fs0.dirs) =>
        /\ Resolve(VideosDir(req.subfolder)) \in fs.dirs <=> PassedChecks(req)
        /\ ~PassedChecks(req) => fs = fs0

\* C10 amended: the same, from a state where nothing, neither a directory nor
\* a file, exists at the path of the target directory.
C10_DirIffPassedWhenFree ==
    (op = "download" /\ pc = "done"
        /\ Resolve(VideosDir(req.subfolder)) \notin fs0.dirs \cup fs0.files) =>
        /\ Resolve(VideosDir(req.subfolder)) \in fs.dirs <=> PassedChecks(req)
        /\ ~PassedChecks(req) => fs = fs0

C10_Witness ==
    /\ op = "download" /\ pc = "done"
    /\ Resolve(VideosDir(req.subfolder)) \notin fs0.dirs \cup fs0.files
    /\ out.kind = "download_error"
    /\ resp.status = 400
    /\ Resolve(VideosDir(req.subfolder)) \in fs.dirs

=============================================================================
